---- MODULE Spec2Model ----
(***************************************************************************)
(* A model of prody/ensemble.py: class Ensemble (reference coordinates,    *)
(* coordinate sets, weights, cached Conformation views, transformations)   *)
(* and class Conformation.                                                 *)
(*                                                                         *)
(* Representation.                                                         *)
(*  - Python None is the empty tuple <<>>, a present value x is <<x>>.     *)
(*  - A numpy array is a record [shape, dtype, data].  data holds one      *)
(*    integer per index of the axes before the last one: the entries along *)
(*    the last axis (x, y, z of an atom, or the single weight of an atom)  *)
(*    are one value.  shape is the full numpy shape.                       *)
(*  - Arrays that the caller and the ensemble may share (the reference     *)
(*    coordinates) live in cells of `heap`; a cell name is the identity of *)
(*    the array object.                                                    *)
(*  - Conformation objects live in `views`, named by their number.         *)
(***************************************************************************)
EXTENDS Integers, Sequences, FiniteSets, TLC

VARIABLES ens, views, heap, arg, ret, last

vars == <<ens, views, heap, arg, ret, last>>

\* ------------------------------------------------------------------ bounds
MaxAtoms == 2
MaxConfs == 2
MaxBatch == 2
MaxCoord == 1
MaxRmsd == 1
MaxSteps == 4

\* ------------------------------------------------------------ Python values
None == <<>>
Some(x) == <<x>>
Val(o) == o[1]

Max(a, b) == IF a >= b THEN a ELSE b

Range(s) == {s[i] : i \in 1..Len(s)}

Cells == {"c1", "c2", "c3", "c4"}

\* ------------------------------------------------------------- numpy arrays
Arr(shape, dtype, data) == [shape |-> shape, dtype |-> dtype, data |-> data]

ndim(a) == Len(a.shape)

\* a.shape[0], the length of the first axis
Rows(a) == a.shape[1]

\* ndarray.copy(): an equal array that is a new object
Copy(a) == Arr(a.shape, a.dtype, a.data)

\* coords.astype(np.float64) raises ValueError exactly for a dtype that
\* cannot be converted (a string array); its result is discarded by the
\* callers, so the array itself is never changed
AstypeFails(a) == a.dtype = "S"

\* a[i] along the first axis, i counted from 0 as in Python
Row(a, i) == a.data[i + 1]

\* coords.reshape((1, n_atoms, 3)) of a 2-d array, and
\* weights.reshape((1, n_atoms, 1)) of a 1-d array: possible exactly when
\* the number of elements is kept
ReshapeOk(a, tl) ==
    IF ndim(a) = 1 THEN a.shape[1] = tl[1] * tl[2]
    ELSE a.shape[1] * a.shape[2] = tl[1] * tl[2]

Reshape(a, tl) == Arr(<<1>> \o tl, a.dtype, <<a.data>>)

\* np.tile(a, (k, n, 1)) of an array of rank 2 or 3 whose last axis has
\* length 1: a rank 2 array is first promoted to (1, m, 1); every axis is
\* repeated by its own factor, so the result has shape (j*k, m*n, 1)
Promote(a) == IF ndim(a) = 3 THEN a ELSE Arr(<<1>> \o a.shape, a.dtype, <<a.data>>)

Tile(a, k, n) ==
    LET p == Promote(a)
        j == p.shape[1]
        m == p.shape[2]
    IN  Arr(<<j * k, m * n, 1>>, p.dtype,
            [r \in 1..(j * k) |->
                [c \in 1..(m * n) |-> p.data[((r - 1) % j) + 1][((c - 1) % m) + 1]]])

\* np.concatenate((a, b), axis=0) raises ValueError unless both are arrays of
\* the same rank that agree on every axis but the first
ConcatOk(a, b) ==
    /\ ndim(a) = ndim(b)
    /\ \A i \in 2..ndim(a) : a.shape[i] = b.shape[i]

Concat(a, b) ==
    Arr(<<a.shape[1] + b.shape[1]>> \o Tail(a.shape), "f8", a.data \o b.data)

\* np.ones(n_confs, n_atoms, 1): the second positional parameter of np.ones
\* is dtype, and an integer is no dtype, so the call raises TypeError for
\* every n_confs and n_atoms
OnesRaises(n_confs, n_atoms) == TRUE

\* a[which] for a boolean mask `which` (a sequence of BOOLEAN) along the
\* first axis
RECURSIVE Pick(_, _, _)
Pick(data, which, i) ==
    IF i > Len(which) THEN <<>>
    ELSE (IF which[i] THEN <<data[i]>> ELSE <<>>) \o Pick(data, which, i + 1)

Count(which) == Cardinality({i \in 1..Len(which) : which[i]})

\* A mask as long as the first axis always selects.  A mask of another
\* length raises IndexError in numpy >= 1.13; older releases index with
\* which.nonzero(), which raises IndexError only for a True entry beyond the
\* first axis.  `lax` names the older behaviour.
MaskOk(a, which, lax) ==
    \/ Len(which) = Rows(a)
    \/ lax /\ \A i \in 1..Len(which) : which[i] => i <= Rows(a)

Mask(a, which) ==
    Arr(<<Count(which)>> \o Tail(a.shape), a.dtype, Pick(a.data, which, 1))

\* ------------------------------------------------------- call arguments
\* What a caller passes as `coords` or `weights`: an ndarray, an object
\* exposing getCoordinates/getName/getNumOfCoordsets/getActiveCoordsetIndex
\* (an AtomGroup and the like: "ag"), or any other object ("obj")
NdArray(a) == [kind |-> "ndarray", arr |-> a, name |-> "", ncsets |-> 0, acsi |-> 0]
AtomGroup(a, name, ncsets, acsi) ==
    [kind |-> "ag", arr |-> a, name |-> name, ncsets |-> ncsets, acsi |-> acsi]
Other == [kind |-> "obj", arr |-> Arr(<<>>, "O", <<>>), name |-> "", ncsets |-> 0, acsi |-> 0]

\* ---------------------------------------------------------------- Ensemble
\* Ensemble.__init__: the fields of a new ensemble.  coords is the cell of
\* the reference array, confs and weights are arrays, ensemble is the list
\* of Conformation objects (numbers into `views`) or None, one per
\* conformation, transformations the list of what the last superimposition
\* returned
Ensemble(name) ==
    [name |-> name, n_atoms |-> None, coords |-> None, confs |-> None,
     weights |-> None, ensemble |-> <<>>, transformations |-> <<>>]

\* Conformation.__init__
Conformation(ensemble, index, name) ==
    [name |-> name, ensemble |-> Some(ensemble), index |-> Some(index)]

\* what a call leaves behind: the ensemble, the Conformation objects and
\* the exception raised ("" when the call returned)
Result(e, v, err) == [e |-> e, v |-> v, err |-> err]

\* Ensemble.__len__
len(e) == Len(e.ensemble)

\* the value of seq[i] for a Python index (negative indices count from the
\* end); IndexError outside -n..n-1
InRange(i, n) == -n <= i /\ i < n
Pos(i, n) == IF i < 0 THEN i + n + 1 ELSE i + 1

\* setCoordinates without lines 145-147: an array of any length replaces
\* the reference and n_atoms follows it
setCoordinatesAny(e, v, x, c) ==
    IF x.kind = "obj" THEN Result(e, v, "TypeError")
    ELSE IF x.kind = "ndarray" /\ ndim(x.arr) # 2 THEN Result(e, v, "ValueError")
    ELSE IF x.kind = "ndarray" /\ x.arr.shape[2] # 3 THEN Result(e, v, "ValueError")
    ELSE IF x.kind = "ndarray" /\ x.arr.dtype # "f8" /\ AstypeFails(x.arr)
         THEN Result(e, v, "ValueError")
    ELSE Result([e EXCEPT !.n_atoms = Some(x.arr.shape[1]), !.coords = Some(c)], v, "")

\* Ensemble.setCoordinates.  c is the cell of the array that ends up in
\* self._coords: the caller's own array for an ndarray, the array that
\* getCoordinates() returned otherwise
setCoordinates(e, v, x, c) ==
    IF x.kind = "obj" THEN Result(e, v, "TypeError")
    ELSE IF x.kind = "ndarray" /\ ndim(x.arr) # 2 THEN Result(e, v, "ValueError")
    ELSE IF x.kind = "ndarray" /\ x.arr.shape[2] # 3 THEN Result(e, v, "ValueError")
    ELSE IF x.kind = "ndarray" /\ x.arr.dtype # "f8" /\ AstypeFails(x.arr)
         THEN Result(e, v, "ValueError")
    ELSE IF e.n_atoms # None /\ x.arr.shape[1] # Val(e.n_atoms)
         THEN Result(e, v, "ValueError")
    ELSE Result([e EXCEPT !.n_atoms = Some(x.arr.shape[1]), !.coords = Some(c)], v, "")

\* addCoordset, lines 190-207: the checks and the normalisation of the
\* `weights` argument, given the coordinates already normalised to
\* n_confs frames of n_atoms atoms.  [err, w]: the exception raised, or the
\* array (or None) that goes on to be stored
addWeights(weights, n_confs, n_atoms) ==
    IF weights = None THEN [err |-> "", w |-> None]
    ELSE LET x == Val(weights)
             a == x.arr
             r == IF ndim(a) = 1 THEN Reshape(a, <<n_atoms, 1>>) ELSE a
             t == IF n_confs > 1 THEN Tile(r, n_confs, n_atoms) ELSE r
         IN  IF x.kind # "ndarray" THEN [err |-> "TypeError", w |-> None]
             ELSE IF ndim(a) \notin {1, 2, 3} THEN [err |-> "ValueError", w |-> None]
             ELSE IF ndim(a) \in {2, 3} /\ a.shape[ndim(a)] # 1
                  THEN [err |-> "ValueError", w |-> None]
             ELSE IF a.dtype # "f8" /\ AstypeFails(a) THEN [err |-> "ValueError", w |-> None]
             ELSE IF ndim(a) = 1 /\ ~ReshapeOk(a, <<n_atoms, 1>>)
                  THEN [err |-> "ValueError", w |-> None]
             ELSE [err |-> "", w |-> Some(t)]

\* addCoordset, lines 226-234: the new slots of self._ensemble and
\* self._transformations.  An ndarray gets n_confs empty slots; an object
\* gets one Conformation, made at once (as object number `id`) and named
\* after the object
addSlots(e, v, x, n_confs, id) ==
    IF x.kind = "ndarray"
    THEN Result([e EXCEPT !.ensemble = @ \o [i \in 1..n_confs |-> None],
                          !.transformations = @ \o [i \in 1..n_confs |-> None]],
                v, "")
    ELSE LET name == IF x.ncsets > 0 THEN x.name \o " " \o ToString(x.acsi) ELSE x.name
         IN  Result([e EXCEPT !.ensemble = Append(@, Some(id)),
                              !.transformations = Append(@, None)],
                    [v EXCEPT ![id] = Some(Conformation(e.name, Len(e.ensemble), name))],
                    "")

\* addCoordset, lines 212-222: self._confs and self._weights take the new
\* frames.  self._confs is assigned before the weights are concatenated, so
\* an exception there leaves the new frames in self._confs
addStore(e, v, x, coords, w, id) ==
    LET n_confs == Rows(coords)
        n_atoms == Val(e.n_atoms)
    IN  IF e.confs = None
        THEN addSlots([e EXCEPT !.confs = Some(coords), !.weights = w], v, x, n_confs, id)
        ELSE IF ~ConcatOk(Val(e.confs), coords) THEN Result(e, v, "ValueError")
        ELSE LET e2 == [e EXCEPT !.confs = Some(Concat(Val(e.confs), coords))]
             IN  IF w # None
                 THEN IF e.weights = None \/ ~ConcatOk(Val(e.weights), Val(w))
                      THEN Result(e2, v, "ValueError")
                      ELSE addSlots([e2 EXCEPT !.weights = Some(Concat(Val(e.weights), Val(w)))],
                                    v, x, n_confs, id)
                 ELSE IF e.weights # None
                      THEN IF OnesRaises(n_confs, n_atoms)
                           THEN Result(e2, v, "TypeError")
                           ELSE addSlots([e2 EXCEPT !.weights = Some(Concat(Val(e.weights),
                                             Arr(<<n_confs, n_atoms, 1>>, "f8",
                                                 [i \in 1..n_confs |-> [j \in 1..n_atoms |-> 1]])))],
                                         v, x, n_confs, id)
                      ELSE addSlots(e2, v, x, n_confs, id)

\* Ensemble.addCoordset(coords, weights).  id is the number the Conformation
\* made for an object argument gets
addCoordset(e, v, x, weights, id) ==
    IF x.kind = "obj" THEN Result(e, v, "TypeError")
    ELSE IF ndim(x.arr) \notin {2, 3} THEN Result(e, v, "ValueError")
    ELSE IF x.arr.dtype # "f8" /\ AstypeFails(x.arr) THEN Result(e, v, "ValueError")
    ELSE IF e.n_atoms # None /\ x.arr.shape[ndim(x.arr) - 1] # Val(e.n_atoms)
         THEN Result(e, v, "ValueError")
    ELSE LET e1 == [e EXCEPT !.n_atoms = Some(x.arr.shape[ndim(x.arr) - 1])]
             n_atoms == Val(e1.n_atoms)
         IN  IF ndim(x.arr) = 2 /\ ~ReshapeOk(x.arr, <<n_atoms, 3>>)
             THEN Result(e1, v, "ValueError")
             ELSE LET coords == IF ndim(x.arr) = 2 THEN Reshape(x.arr, <<n_atoms, 3>>)
                                ELSE x.arr
                      ws == addWeights(weights, Rows(coords), n_atoms)
                  IN  IF ws.err # "" THEN Result(e1, v, ws.err)
                      ELSE addStore(e1, v, x, coords, ws.w, id)

\* Ensemble._getConformation(index): the Conformation cached in the slot,
\* or a new one (object number `id`) made from the index as given and
\* stored there.  [r]: the result and the object returned
getConformation(e, v, index, id) ==
    IF ~InRange(index, Len(e.ensemble)) THEN [r |-> Result(e, v, "IndexError"), conf |-> None]
    ELSE LET p == Pos(index, Len(e.ensemble))
         IN  IF e.ensemble[p] # None
             THEN [r |-> Result(e, v, ""), conf |-> e.ensemble[p]]
             ELSE [r |-> Result([e EXCEPT !.ensemble[p] = Some(id)],
                                [v EXCEPT ![id] = Some(Conformation(e.name, index, ToString(index)))],
                                ""),
                   conf |-> Some(id)]

\* the `index` argument of delCoordset: an int or a list of ints
IntIndex(i) == [kind |-> "int", list |-> <<i>>]
ListIndex(l) == [kind |-> "list", list |-> l]

\* which = np.ones(length, np.bool); which[index] = False
whichMask(length, index) ==
    [i \in 1..length |-> \A k \in 1..Len(index.list) : Pos(index.list[k], length) # i]

\* list.sort(reverse=True)
RECURSIVE SortReverse(_)
SortReverse(l) ==
    IF l = <<>> THEN <<>>
    ELSE LET k == CHOOSE k \in 1..Len(l) : \A j \in 1..Len(l) : l[k] >= l[j]
         IN  <<l[k]>> \o SortReverse([j \in 1..(Len(l) - 1) |-> IF j < k THEN l[j] ELSE l[j + 1]])

\* list.pop(i)
Pop(l, i) ==
    LET p == Pos(i, Len(l))
    IN  [j \in 1..(Len(l) - 1) |-> IF j < p THEN l[j] ELSE l[j + 1]]

\* the loop of lines 277-282 without lines 279-281: a popped Conformation
\* keeps its index and its ensemble
RECURSIVE delSlotsAttached(_, _, _)
delSlotsAttached(e, v, index) ==
    IF index = <<>> THEN Result(e, v, "")
    ELSE LET i == Head(index)
         IN  IF ~InRange(i, Len(e.ensemble)) THEN Result(e, v, "IndexError")
             ELSE LET e1 == [e EXCEPT !.ensemble = Pop(@, i)]
                  IN  IF ~InRange(i, Len(e1.transformations)) THEN Result(e1, v, "IndexError")
                      ELSE delSlotsAttached([e1 EXCEPT !.transformations = Pop(@, i)], v,
                                            Tail(index))

\* delCoordset, lines 277-282: the loop over the indices, largest first.  A
\* popped Conformation loses its index and its ensemble; list.pop raises
\* IndexError for an index the (already shortened) list does not have
RECURSIVE delSlots(_, _, _)
delSlots(e, v, index) ==
    IF index = <<>> THEN Result(e, v, "")
    ELSE LET i == Head(index)
         IN  IF ~InRange(i, Len(e.ensemble)) THEN Result(e, v, "IndexError")
             ELSE LET conf == e.ensemble[Pos(i, Len(e.ensemble))]
                      e1 == [e EXCEPT !.ensemble = Pop(@, i)]
                      v1 == IF conf = None THEN v
                            ELSE [v EXCEPT ![Val(conf)] =
                                     Some([Val(@) EXCEPT !.index = None, !.ensemble = None])]
                  IN  IF ~InRange(i, Len(e1.transformations)) THEN Result(e1, v1, "IndexError")
                      ELSE delSlots([e1 EXCEPT !.transformations = Pop(@, i)], v1, Tail(index))

\* Ensemble.delCoordset(index)
delCoordset(e, v, index, lax) ==
    LET length == Len(e.ensemble)
        which == whichMask(length, index)
        order == SortReverse(index.list)
    IN  IF \E k \in 1..Len(index.list) : ~InRange(index.list[k], length)
        THEN Result(e, v, "IndexError")
        ELSE IF Count(which) = 0
        THEN delSlots([e EXCEPT !.confs = None, !.weights = None], v, order)
        ELSE IF e.confs = None THEN Result(e, v, "TypeError")
        ELSE IF ~MaskOk(Val(e.confs), which, lax) THEN Result(e, v, "IndexError")
        ELSE LET e1 == [e EXCEPT !.confs = Some(Mask(Val(e.confs), which))]
             IN  IF e.weights = None THEN delSlots(e1, v, order)
                 ELSE IF ~MaskOk(Val(e.weights), which, lax) THEN Result(e1, v, "IndexError")
                 ELSE delSlots([e1 EXCEPT !.weights = Some(Mask(Val(e.weights), which))],
                               v, order)

\* ------------------------------------------------------------------ measure
\* prody.measure is not part of the sources at hand.  Its two functions are
\* modelled from their interface: superimpose(mobile, target, weights)
\* returns the mobile coordinates after the rigid-body motion that fits
\* them best to the target, and that motion; _getRMSD(a, b) is the root
\* mean square distance of two coordinate sets.  Coordinates being one
\* integer per atom, the rigid-body motions are the shifts by an integer.

\* a float that is no number (0/0, x/0, and everything computed from them)
NaN == -1000

RECURSIVE SumSeq(_)
SumSeq(s) == IF s = <<>> THEN 0 ELSE Head(s) + SumSeq(Tail(s))

\* the weighted sum of squared distances of mobile shifted by t from target
Misfit(mobile, target, w, t) ==
    SumSeq([j \in 1..Len(mobile) |-> w[j] * (mobile[j] + t - target[j]) * (mobile[j] + t - target[j])])

Abs(x) == IF x < 0 THEN -x ELSE x

\* the best shift: the least misfit, and of two equally good shifts the
\* smaller one (no shift at all for coordinates that already fit best)
BestShift(mobile, target, w) ==
    LET d == {target[j] - mobile[j] : j \in 1..Len(mobile)} \cup {0}
        lo == CHOOSE x \in d : \A y \in d : x <= y
        hi == CHOOSE x \in d : \A y \in d : x >= y
    IN  CHOOSE t \in lo..hi :
            \A u \in lo..hi :
                \/ Misfit(mobile, target, w, t) < Misfit(mobile, target, w, u)
                \/ /\ Misfit(mobile, target, w, t) = Misfit(mobile, target, w, u)
                   /\ Abs(t) <= Abs(u)

\* measure.superimpose is defined for a mobile and a target of the same
\* shape (n_atoms, 3) without NaN and weights of shape (n_atoms, 1) or None;
\* any other call is taken to raise.  mobile and weights are given as
\* [shape, data] of one frame
superimposeOk(mobile, target, weights) ==
    /\ target # None
    /\ mobile.shape = Val(target).shape
    /\ Len(mobile.shape) = 2 /\ mobile.shape[2] = 3
    /\ NaN \notin Range(mobile.data) \cup Range(Val(target).data)
    /\ weights # None => Val(weights).shape = <<mobile.shape[1], 1>>

measure_superimpose(mobile, target, weights) ==
    LET w == IF weights = None THEN [j \in 1..Len(mobile.data) |-> 1] ELSE Val(weights).data
        t == BestShift(mobile.data, Val(target).data, w)
    IN  [conf |-> [j \in 1..Len(mobile.data) |-> mobile.data[j] + t], t |-> t]

\* measure._getRMSD(ref, tar) > rmsd, for two coordinate sets of one shape:
\* sqrt(sum((ref - tar)**2) / n_atoms) > rmsd.  A NaN in either makes the
\* RMSD NaN, and NaN > rmsd is False
RMSDExceeds(ref, tar, rmsd) ==
    /\ NaN \notin Range(ref.data) \cup Range(tar.data)
    /\ SumSeq([j \in 1..Len(ref.data) |-> (ref.data[j] - tar.data[j]) * (ref.data[j] - tar.data[j])])
           > rmsd * rmsd * Len(ref.data)

\* --------------------------------------------------- Ensemble, alignment
\* one frame of a batch, as [shape, data]
Frame(a, i) == [shape |-> Tail(a.shape), data |-> Row(a, i)]

\* the loop of _superimpose without the assignment to
\* self._transformations[i] (lines 330 and 334): the frames are fitted and
\* the transformations dropped
RECURSIVE superimposeUnrecorded(_, _, _)
superimposeUnrecorded(e, ref, i) ==
    IF i >= Len(e.ensemble) THEN [e |-> e, err |-> ""]
    ELSE IF i >= Rows(Val(e.confs)) THEN [e |-> e, err |-> "IndexError"]
    ELSE IF e.weights # None /\ i >= Rows(Val(e.weights)) THEN [e |-> e, err |-> "IndexError"]
    ELSE LET mobile == Frame(Val(e.confs), i)
             w == IF e.weights = None THEN None
                  ELSE IF ndim(Val(e.weights)) = 3 THEN Some(Frame(Val(e.weights), i))
                  ELSE Some([shape |-> <<1>>, data |-> <<Row(Val(e.weights), i)>>])
         IN  IF ~superimposeOk(mobile, ref, w) THEN [e |-> e, err |-> "ValueError"]
             ELSE superimposeUnrecorded(
                      [e EXCEPT !.confs = Some([Val(@) EXCEPT !.data[i + 1] =
                                                  measure_superimpose(mobile, ref, w).conf])],
                      ref, i + 1)

\* Ensemble._superimpose, the loop from index i on (lines 327-336): frame i
\* of self._confs and its transformation slot are overwritten as soon as
\* frame i is fitted, so an exception at frame i leaves the frames before
\* it fitted.  ref is the value of self._coords.  [e, err]
RECURSIVE superimposeFrom(_, _, _)
superimposeFrom(e, ref, i) ==
    IF i >= Len(e.ensemble) THEN [e |-> e, err |-> ""]
    ELSE IF i >= Rows(Val(e.confs)) THEN [e |-> e, err |-> "IndexError"]
    ELSE IF e.weights # None /\ i >= Rows(Val(e.weights)) THEN [e |-> e, err |-> "IndexError"]
    ELSE LET mobile == Frame(Val(e.confs), i)
             w == IF e.weights = None THEN None
                  ELSE IF ndim(Val(e.weights)) = 3 THEN Some(Frame(Val(e.weights), i))
                  ELSE Some([shape |-> <<1>>, data |-> <<Row(Val(e.weights), i)>>])
         IN  IF ~superimposeOk(mobile, ref, w) THEN [e |-> e, err |-> "ValueError"]
             ELSE LET fit == measure_superimpose(mobile, ref, w)
                  IN  superimposeFrom(
                          [e EXCEPT !.confs = Some([Val(@) EXCEPT !.data[i + 1] = fit.conf]),
                                    !.transformations[i + 1] = Some(fit.t)],
                          ref, i + 1)

\* Ensemble._superimpose
superimposeAll(e, ref) == superimposeFrom(e, ref, 0)

\* the check that opens superimpose and iterimpose (lines 310 and 369)
confsNotSet(e) == e.confs = None \/ Rows(Val(e.confs)) = 0

\* Ensemble.superimpose.  h is the heap, where self._coords is read
superimpose(e, v, h) ==
    IF confsNotSet(e) THEN Result(e, v, "AttributeError")
    ELSE LET r == superimposeAll(e, IF e.coords = None THEN None ELSE h[Val(e.coords)])
         IN  Result(r.e, v, r.err)

\* transform without lines 346-348: the loop is entered whatever the slots
\* hold
transformUnguarded(e, v) == Result(e, v, "AttributeError")

\* Ensemble.transform: EnsembleError while a transformation is missing.
\* Otherwise the loop reads self.conformations, an attribute no Ensemble
\* has, and the call ends in AttributeError before it changes anything
transform(e, v) ==
    IF \E i \in 1..Len(e.transformations) : e.transformations[i] = None
    THEN Result(e, v, "EnsembleError")
    ELSE Result(e, v, "AttributeError")

\* x / y of floats: NaN for a NaN operand and for y = 0, else the quotient,
\* rounded down to the integer grid of the coordinates
Divide(x, y) == IF x = NaN \/ y = NaN \/ y = 0 THEN NaN ELSE x \div y

\* numpy broadcasting of two axis lengths
Broadcastable(m, n) == m = n \/ m = 1 \/ n = 1
At(i, n) == IF n = 1 THEN 1 ELSE i

\* iterimpose, lines 381-384: the mean of the frames that becomes the new
\* reference.  Without weights, self._confs.sum(0) / length.  With weights,
\* (self._confs * weights).sum(0) / weightsum, where the product and the
\* quotient broadcast as numpy does (a 2-d weights array counts as one
\* frame of weights and sums to a single number).  [ok, xyz]
meanOk(e) ==
    e.weights # None =>
        LET c == Val(e.confs)
            w == Promote(Val(e.weights))
        IN  /\ ndim(c) = 3
            /\ Broadcastable(c.shape[1], w.shape[1])
            /\ Broadcastable(c.shape[2], w.shape[2])

mean(e) ==
    LET c == Val(e.confs)
    IN  IF e.weights = None
        THEN Arr(Tail(c.shape), "f8",
                 [a \in 1..c.shape[2] |->
                     Divide(SumSeq([k \in 1..c.shape[1] |-> c.data[k][a]]), Len(e.ensemble))])
        ELSE LET w == Promote(Val(e.weights))
                 rows == Max(c.shape[1], w.shape[1])
                 atoms == Max(c.shape[2], w.shape[2])
                 weightsum == [m \in 1..w.shape[2] |->
                                  IF ndim(Val(e.weights)) = 3
                                  THEN SumSeq([j \in 1..w.shape[1] |-> w.data[j][m]])
                                  ELSE SumSeq(w.data[1])]
             IN  Arr(<<atoms, c.shape[3]>>, "f8",
                     [a \in 1..atoms |->
                         Divide(SumSeq([k \in 1..rows |->
                                    c.data[At(k, c.shape[1])][At(a, c.shape[2])]
                                      * w.data[At(k, w.shape[1])][At(a, w.shape[2])]]),
                                weightsum[At(a, w.shape[2])])])

\* iterimpose, the loop of lines 379-389 from its n-th test of
\* `rmsdif > rmsd` on: ref is the value of self._coords, exceeds the value
\* of the test.  [e, ref, err, steps]; err is "loops" when the loop has not
\* ended after MaxSteps iterations
RECURSIVE iterFrom(_, _, _, _, _)
iterFrom(e, ref, exceeds, rmsd, n) ==
    IF ~exceeds THEN [e |-> e, ref |-> ref, err |-> "", steps |-> n]
    ELSE IF n >= MaxSteps THEN [e |-> e, ref |-> ref, err |-> "loops", steps |-> n]
    ELSE LET r == superimposeAll(e, ref)
             newxyz == mean(r.e)
         IN  IF r.err # "" THEN [e |-> r.e, ref |-> ref, err |-> r.err, steps |-> n]
             ELSE IF ~meanOk(r.e) THEN [e |-> r.e, ref |-> ref, err |-> "ValueError", steps |-> n]
             ELSE IF ref = None THEN [e |-> r.e, ref |-> ref, err |-> "TypeError", steps |-> n]
             ELSE IF Val(ref).shape # newxyz.shape
                  THEN [e |-> r.e, ref |-> ref, err |-> "ValueError", steps |-> n]
             ELSE iterFrom(r.e, Some(newxyz), RMSDExceeds(Val(ref), newxyz, rmsd), rmsd, n + 1)

\* Ensemble.iterimpose(rmsd).  Every iteration binds self._coords to a new
\* array; c is the cell of the last one.  [r, ref, steps]: the result, the
\* value of self._coords and the number of iterations
iterimpose(e, v, h, rmsd, c) ==
    IF confsNotSet(e) THEN [r |-> Result(e, v, "AttributeError"), ref |-> None, steps |-> 0]
    ELSE LET it == iterFrom(e, IF e.coords = None THEN None ELSE h[Val(e.coords)],
                            1 > rmsd, rmsd, 0)
         IN  [r |-> Result(IF it.steps > 0 THEN [it.e EXCEPT !.coords = Some(c)] ELSE it.e,
                           v, it.err),
              ref |-> it.ref, steps |-> it.steps]

\* getCoordinates without the copy: `return self._coords`
getCoordinatesAlias(e, h, c) ==
    IF e.coords = None THEN [err |-> "AttributeError", cell |-> None, heap |-> h]
    ELSE [err |-> "", cell |-> e.coords, heap |-> h]

\* Ensemble.getCoordinates: self._coords.copy(), a new array (in cell c).
\* [err, cell, heap]: the exception, the cell of the array returned, the heap
getCoordinates(e, h, c) ==
    IF e.coords = None THEN [err |-> "AttributeError", cell |-> None, heap |-> h]
    ELSE [err |-> "", cell |-> Some(c),
          heap |-> [h EXCEPT ![c] = Some(Copy(Val(h[Val(e.coords)])))]]

\* ------------------------------------------------------------ the caller
\* The arrays and objects a caller passes in.  Coordinates are the same for
\* every atom of a frame.
Atoms == 1..MaxAtoms
Coord == 0..MaxCoord

Uniform(n, x) == [a \in 1..n |-> x]

Frames(n, xs) == [i \in 1..Len(xs) |-> Uniform(n, xs[i])]

Weight == {0, 1}

\* arguments of setCoordinates
RefInputsOf(V) ==
    {NdArray(Arr(<<n, 3>>, "f8", Uniform(n, x))) : n \in Atoms, x \in V}
    \cup {NdArray(Arr(<<n, 4>>, "f8", Uniform(n, 0))) : n \in Atoms}
    \cup {NdArray(Arr(<<n>>, "f8", Uniform(n, 0))) : n \in Atoms}
    \cup {NdArray(Arr(<<1, n, 3>>, "f8", Frames(n, <<0>>))) : n \in Atoms}
    \cup {NdArray(Arr(<<n, 3>>, "S", Uniform(n, 0))) : n \in Atoms}
    \cup {AtomGroup(Arr(<<n, 3>>, "f8", Uniform(n, x)), "ag", 0, 0) : n \in Atoms, x \in V}
    \cup {Other}

\* `coords` arguments of addCoordset
CoordInputsOf(V) ==
    {NdArray(Arr(<<n, 3>>, "f8", Uniform(n, x))) : n \in Atoms, x \in V}
    \cup UNION {{NdArray(Arr(<<k, n, 3>>, "f8", Frames(n, xs))) : xs \in [1..k -> V]} :
                  k \in 1..MaxBatch, n \in Atoms}
    \cup {NdArray(Arr(<<n, 4>>, "f8", Uniform(n, 0))) : n \in Atoms}
    \cup {NdArray(Arr(<<n>>, "f8", Uniform(n, 0))) : n \in Atoms}
    \cup {NdArray(Arr(<<n, 3>>, "S", Uniform(n, 0))) : n \in Atoms}
    \cup {AtomGroup(Arr(<<n, 3>>, "f8", Uniform(n, x)), "ag", 1, 0) : n \in Atoms, x \in V}
    \cup {Other}

\* `weights` arguments of addCoordset
WeightInputsOf(V) ==
    {None, Some(Other)}
    \cup {Some(NdArray(Arr(<<m>>, "f8", Uniform(m, x)))) : m \in Atoms, x \in V}
    \cup {Some(NdArray(Arr(<<m, 1>>, "f8", Uniform(m, x)))) : m \in Atoms, x \in V}
    \cup {Some(NdArray(Arr(<<j, m, 1>>, "f8", [i \in 1..j |-> Uniform(m, x)]))) :
             j \in 1..MaxBatch, m \in Atoms, x \in V}
    \cup {Some(NdArray(Arr(<<1, 2>>, "f8", Uniform(1, 1)))),
          Some(NdArray(Arr(<<1, 1, 1, 1>>, "f8", <<<<Uniform(1, 1)>>>>))),
          Some(NdArray(Arr(<<1>>, "S", Uniform(1, 1))))}

\* the calls of addCoordset, as <<coords, weights>>.  Coordinates that are
\* refused before the weights are looked at come without weights
Refused(x) == x.kind = "obj" \/ ndim(x.arr) \notin {2, 3} \/ x.arr.dtype = "S"
                 \/ (ndim(x.arr) = 2 /\ x.arr.shape[2] # 3)

AddInputsOf(V, W) ==
    {<<x, w>> \in CoordInputsOf(V) \X WeightInputsOf(W) : Refused(x) => w = None}

\* `index` arguments of delCoordset and getConformation
Indices == (-1)..MaxConfs

IndexInputs ==
    {IntIndex(i) : i \in Indices}
    \cup {ListIndex(<<>>)}
    \cup {ListIndex(<<i, j>>) : i \in Indices, j \in 0..MaxConfs}

\* ------------------------------------------------------------ the state
\* An array object is known by the variables that refer to it, so the
\* cells are named in a fixed way after every call: c1 is the array of
\* self._coords, c2 the caller's array `arg` unless it is that one, c3 the
\* caller's array `ret` unless it is one of these; c4 is where a call puts
\* a new array.  [e, heap, arg, ret]
NewCell == "c4"

Canon(e, h, a, r) ==
    LET ca == IF a = None THEN None ELSE IF a = e.coords THEN Some("c1") ELSE Some("c2")
        cr == IF r = None THEN None
              ELSE IF r = e.coords THEN Some("c1")
              ELSE IF r = a THEN Some("c2") ELSE Some("c3")
    IN  [e |-> [e EXCEPT !.coords = IF @ = None THEN None ELSE Some("c1")],
         heap |-> [c \in Cells |->
                      IF c = "c1" /\ e.coords # None THEN h[Val(e.coords)]
                      ELSE IF ca = Some(c) THEN h[Val(a)]
                      ELSE IF cr = Some(c) THEN h[Val(r)]
                      ELSE None],
         arg |-> ca, ret |-> cr]

\* the value of self._coords: None or the reference array
Reference(e, h) == IF e.coords = None THEN None ELSE h[Val(e.coords)]

\* Conformation objects are numbered 1..MaxConfs: an ensemble of at most
\* MaxConfs conformations has no more of them attached
ViewIds == 1..MaxConfs

FreeViews(v) == {i \in ViewIds : v[i] = None}

NewView(v) == IF FreeViews(v) = {} THEN 0
              ELSE CHOOSE i \in FreeViews(v) : \A j \in FreeViews(v) : i <= j

\* The caller keeps no Conformation that delCoordset has detached beyond its
\* next call: the objects that are still of use
Live(v) == [i \in ViewIds |-> IF v[i] # None /\ Val(v[i]).ensemble = None THEN None ELSE v[i]]

\* the sizes the model is explored up to
WeightRows == MaxConfs

Bounded(e) ==
    /\ Len(e.ensemble) <= MaxConfs
    /\ e.confs # None => Rows(Val(e.confs)) <= MaxConfs
    /\ e.weights # None => Rows(Val(e.weights)) <= WeightRows

Desynced(e) ==
    \/ e.confs # None /\ Rows(Val(e.confs)) # Len(e.ensemble)
    \/ e.weights # None /\ Rows(Val(e.weights)) # Len(e.ensemble)

\* the record of the last call: its name and the exception it raised (""
\* for none)
Call(op, err) == [op |-> op, err |-> err]

Init ==
    /\ ens = Ensemble("ens")
    /\ views = [i \in ViewIds |-> None]
    /\ heap = [c \in Cells |-> None]
    /\ arg = None
    /\ ret = None
    /\ last = Call("init", "")

\* ------------------------------------------------------------- the calls
\* the state after a call that leaves ensemble e, Conformations v, heap h
\* and the caller holding arrays a and r
Becomes(e, v, h, a, r) ==
    \E s \in {Canon(e, h, a, r)} :
        /\ ens' = s.e
        /\ views' = v
        /\ heap' = s.heap
        /\ arg' = s.arg
        /\ ret' = s.ret

\* ens.setCoordinates(x).  An ndarray is an array of the caller, who with
\* `keeps` goes on holding it (arg) when the call succeeds; an object
\* answers getCoordinates() with a new array
SetCoordinatesOf(X, keeps) ==
    \E x \in X :
        \E r \in {setCoordinates(ens, Live(views), x, NewCell)} :
            /\ Becomes(r.e, r.v,
                       IF x.kind = "obj" THEN heap ELSE [heap EXCEPT ![NewCell] = Some(x.arr)],
                       IF x.kind = "ndarray" /\ r.err = "" /\ keeps THEN Some(NewCell) ELSE arg,
                       ret)
            /\ last' = Call("setCoordinates", r.err)

\* ens.getCoordinates(): the caller keeps the array returned (ret)
GetCoordinates ==
    \E g \in {getCoordinates(ens, heap, NewCell)} :
        /\ Becomes(ens, Live(views), g.heap, arg, g.cell)
        /\ last' = Call("getCoordinates", g.err)

\* the caller writes x into the first row of an array it holds: the one it
\* passed to setCoordinates, or the one getCoordinates returned
Write(h, cell, x) == [h EXCEPT ![cell] = Some([Val(@) EXCEPT !.data[1] = x])]

MutateArg ==
    /\ arg # None
    /\ \E x \in Coord :
        /\ Val(heap[Val(arg)]).data[1] # x
        /\ Becomes(ens, Live(views), Write(heap, Val(arg), x), arg, ret)
    /\ last' = Call("mutateArg", "")

MutateRet ==
    /\ ret # None
    /\ \E x \in Coord :
        /\ Val(heap[Val(ret)]).data[1] # x
        /\ Becomes(ens, Live(views), Write(heap, Val(ret), x), arg, ret)
    /\ last' = Call("mutateRet", "")

\* ens.addCoordset(x, w)
AddCoordsetOf(XW) ==
    \E xw \in XW :
        /\ xw[1].kind = "ag" => NewView(Live(views)) # 0
        /\ \E r \in {addCoordset(ens, Live(views), xw[1], xw[2], NewView(Live(views)))} :
            /\ Bounded(r.e)
            /\ Becomes(r.e, r.v, heap, arg, ret)
            /\ last' = Call("addCoordset", r.err)

\* ens.delCoordset(index), with either numpy where the two differ: on an
\* array that has not as many rows as the mask
DelCoordset ==
    \E index \in IndexInputs, lax \in IF Desynced(ens) THEN BOOLEAN ELSE {FALSE} :
        \E r \in {delCoordset(ens, Live(views), index, lax)} :
            /\ Becomes(r.e, r.v, heap, arg, ret)
            /\ last' = Call("delCoordset", r.err)

\* ens.getConformation(i), ens[i]
GetConformation ==
    \E i \in 0..MaxConfs :
        \E g \in {getConformation(ens, Live(views), i, NewView(Live(views)))} :
            /\ g.conf # Some(0)
            /\ Becomes(g.r.e, g.r.v, heap, arg, ret)
            /\ last' = Call("getConformation", g.r.err)

\* ens.superimpose()
Superimpose ==
    \E r \in {superimpose(ens, Live(views), heap)} :
        /\ Becomes(r.e, r.v, heap, arg, ret)
        /\ last' = Call("superimpose", r.err)

\* ens.iterimpose(rmsd), for the calls that return or raise
Iterimpose ==
    \E rmsd \in 0..MaxRmsd :
        \E it \in {iterimpose(ens, Live(views), heap, rmsd, NewCell)} :
            /\ it.r.err # "loops"
            /\ Becomes(it.r.e, it.r.v,
                       IF it.steps > 0 THEN [heap EXCEPT ![NewCell] = it.ref] ELSE heap,
                       arg, ret)
            /\ last' = Call("iterimpose", it.r.err)

\* ens.transform()
Transform ==
    \E r \in {transform(ens, Live(views))} :
        /\ Becomes(r.e, r.v, heap, arg, ret)
        /\ last' = Call("transform", r.err)

\* The calls that build, index and align an ensemble.  The coordinates are
\* all 0 and the weights all 1 here.
SetCoordinates == SetCoordinatesOf(RefInputsOf({0}), FALSE)

AddCoordset == AddCoordsetOf(AddInputsOf({0}, {1}))

Next ==
    \/ SetCoordinates
    \/ AddCoordset
    \/ DelCoordset
    \/ GetConformation
    \/ Superimpose
    \/ Iterimpose
    \/ Transform

Spec == Init /\ [][Next]_vars

\* The calls that pass the reference in and out.  The caller goes on
\* holding the array it passed to setCoordinates and the array that
\* getCoordinates returned, and writes to them.
SetReference == SetCoordinatesOf(RefInputsOf(Coord), TRUE)

AddFrames ==
    AddCoordsetOf({<<NdArray(Arr(<<n, 3>>, "f8", Uniform(n, x))), None>> : n \in Atoms, x \in Coord})

NextRef ==
    \/ SetReference
    \/ GetCoordinates
    \/ MutateArg
    \/ MutateRet
    \/ AddFrames
    \/ Iterimpose

SpecRef == Init /\ [][NextRef]_vars

\* ------------------------------------------------------------ properties
\* len(self._confs), with None counted as no conformation
NumConfs(e) == IF e.confs = None THEN 0 ELSE Rows(Val(e.confs))

\* the Conformation cached in slot i (1-based) of e
ViewAt(e, v, i) == Val(v[Val(e.ensemble[i])])

\* C1: in every reachable state the number of stored conformation
\* coordinate sets (0 while self._confs is None) equals the number of view
\* slots and the number of transformation slots.
C1_LengthsAgree ==
    /\ NumConfs(ens) = Len(ens.ensemble)
    /\ Len(ens.ensemble) = Len(ens.transformations)

\* C2: every Conformation cached in slot i reports index i and the
\* ensemble as its owner.
C2_ViewsReportSlot ==
    \A i \in 1..Len(ens.ensemble) :
        ens.ensemble[i] # None =>
            /\ ViewAt(ens, views, i).index = Some(i - 1)
            /\ ViewAt(ens, views, i).ensemble = Some(ens.name)

\* C3: a call of addCoordset or setCoordinates that raises leaves the
\* ensemble as it was: n_atoms, reference, conformations, weights, view
\* slots and transformation slots.
C3_FailedCallChangesNothing ==
    [][(last'.op \in {"addCoordset", "setCoordinates"} /\ last'.err # "")
          => (ens' = ens /\ Reference(ens', heap') = Reference(ens, heap))]_vars

\* the atom count of an argument that has one: the length of the axis
\* before the last
HasAtoms(x) == x.kind # "obj" /\ ndim(x.arr) >= 2
AtomsOf(x) == x.arr.shape[ndim(x.arr) - 1]

C5_WeightsShape ==
    ens.weights # None =>
        /\ ens.confs # None
        /\ ens.n_atoms # None
        /\ Val(ens.weights).shape = <<Rows(Val(ens.confs)), Val(ens.n_atoms), 1>>

\* the arrays addCoordset accepts for an ensemble of n_atoms atoms
Accepted(e) ==
    {x \in CoordInputsOf({0}) : ~Refused(x) /\ x.kind = "ndarray" /\ AtomsOf(x) = Val(e.n_atoms)}

\* C6: on an ensemble that has weights, addCoordset without weights
\* succeeds and appends a row of ones for each of the new conformations.
C6_PadsWithOnes ==
    (ens.weights # None /\ ens.n_atoms # None) =>
        \A x \in Accepted(ens) :
            LET r == addCoordset(ens, views, x, None, 0)
                n_confs == IF ndim(x.arr) = 2 THEN 1 ELSE Rows(x.arr)
            IN  /\ r.err = ""
                /\ r.e.weights # None
                /\ Rows(Val(r.e.weights)) = Rows(Val(ens.weights)) + n_confs
                /\ \A i \in 1..n_confs :
                       Range(Val(r.e.weights).data[Rows(Val(ens.weights)) + i]) = {1}

\* the calls of addCoordset that add one conformation
SingleInputs ==
    {xw \in AddInputsOf({0}, {1}) :
        ~Refused(xw[1]) /\ (ndim(xw[1].arr) = 2 \/ Rows(xw[1].arr) = 1)}

\* C9: adding one conformation and deleting it at once (the last index)
\* gives back the number of conformations, the view slots and the
\* transformation slots there were, and leaves the conformations and the
\* weights None when it was the only one.
C9_AddThenDelete ==
    \A xw \in SingleInputs, lax \in BOOLEAN :
        LET id == NewView(Live(views))
            a == addCoordset(ens, Live(views), xw[1], xw[2], id)
            d == delCoordset(a.e, a.v, IntIndex(Len(a.e.ensemble) - 1), lax)
        IN  ((xw[1].kind = "ag" => id # 0) /\ a.err = "") =>
                /\ d.err = ""
                /\ NumConfs(d.e) = NumConfs(ens)
                /\ d.e.ensemble = ens.ensemble
                /\ d.e.transformations = ens.transformations
                /\ Len(a.e.ensemble) = 1 => (d.e.confs = None /\ d.e.weights = None)

\* the ensemble and its reference are after the step what they were
Untouched == ens' = ens /\ Reference(ens', heap') = Reference(ens, heap)

AcceptedRef(e) ==
    {x \in RefInputsOf(Coord) : setCoordinates(e, views, x, NewCell).err = ""}

\* C7: setCoordinates(x) followed by getCoordinates() returns an array
\* equal to x that is not the array of the reference; every
\* getCoordinates() returns such an array, and writing to the array
\* returned leaves the reference as it is.
C7_ReadsAreCopies ==
    /\ [](\A x \in AcceptedRef(ens) :
              LET s == setCoordinates(ens, views, x, NewCell)
                  g == getCoordinates(s.e, [heap EXCEPT ![NewCell] = Some(x.arr)], "c3")
              IN  /\ g.err = ""
                  /\ g.cell # s.e.coords
                  /\ Val(g.heap[Val(g.cell)]) = x.arr)
    /\ [][/\ (last'.op = "getCoordinates" /\ last'.err = "") =>
                 /\ ret' # None
                 /\ ret' # ens'.coords
                 /\ heap'[Val(ret')] = Reference(ens, heap)
                 /\ Untouched
          /\ last'.op = "mutateRet" => Untouched]_vars

\* the caller has written to the array it was returned, which now differs
\* from the reference
C7_Witness ==
    /\ last.op = "mutateRet"
    /\ ens.coords # None
    /\ ret # None
    /\ ret # ens.coords
    /\ heap[Val(ret)] # Reference(ens, heap)

\* C8: writing to the array that was passed to setCoordinates leaves the
\* reference of the ensemble as it is.
C8_ReferenceIsPrivate ==
    [][last'.op = "mutateArg" => Untouched]_vars

\* ------------------------------------------------------------- alignment
\* The calls that align an ensemble of up to MaxFrames conformations.  The
\* frames are added one at a time and differ in their coordinates (0 or
\* MaxOffset for every atom), so that a frame and its transformation can be
\* told from the others.
MaxFrames == 3
MaxOffset == 2

AlignCoord == {0, MaxOffset}

SetAligned ==
    SetCoordinatesOf({NdArray(Arr(<<n, 3>>, "f8", Uniform(n, x))) : n \in Atoms, x \in AlignCoord},
                     FALSE)

AlignInputs ==
    {<<NdArray(Arr(<<n, 3>>, "f8", Uniform(n, x))), w>> :
        n \in Atoms, x \in AlignCoord, w \in {None}}

AddAligned ==
    \E xw \in AlignInputs :
        \E r \in {addCoordset(ens, Live(views), xw[1], xw[2], 0)} :
            /\ Len(r.e.ensemble) <= MaxFrames
            /\ r.e.confs # None => Rows(Val(r.e.confs)) <= MaxFrames
            /\ Becomes(r.e, r.v, heap, arg, ret)
            /\ last' = Call("addCoordset", r.err)

DelAligned ==
    \E i \in 0..(MaxFrames - 1) :
        \E r \in {delCoordset(ens, Live(views), IntIndex(i), FALSE)} :
            /\ Becomes(r.e, r.v, heap, arg, ret)
            /\ last' = Call("delCoordset", r.err)

NextAlign ==
    \/ SetAligned
    \/ AddAligned
    \/ DelAligned
    \/ Superimpose
    \/ Iterimpose
    \/ Transform

SpecAlign == Init /\ [][NextAlign]_vars

\* an ensemble of three conformations with the same coordinates, without
\* weights, and a reference
Identical3(e) ==
    /\ e.coords # None
    /\ e.weights = None
    /\ Len(e.ensemble) = 3
    /\ e.confs # None
    /\ Rows(Val(e.confs)) = 3
    /\ \A i \in 1..3 : Val(e.confs).data[i] = Val(e.confs).data[1]

\* C11: on three identical conformations iterimpose(rmsd) returns (within
\* MaxSteps iterations), and the reference it leaves is within rmsd of
\* every conformation.
C11_IterimposeConverges ==
    Identical3(ens) =>
        \A rmsd \in 0..MaxRmsd :
            LET it == iterimpose(ens, views, heap, rmsd, NewCell)
            IN  /\ it.r.err = ""
                /\ it.ref # None
                /\ \A i \in 0..2 :
                       ~RMSDExceeds(Val(it.ref), Frame(Val(it.r.e.confs), i), rmsd)

\* C17: iterimpose(rmsd) on an ensemble with conformations runs at least
\* one iteration whatever rmsd is; when it returns, every conformation has
\* a transformation and the reference is the mean of the conformations as
\* the last iteration left them.
C17_IterimposeIterates ==
    (~confsNotSet(ens) /\ Len(ens.ensemble) >= 1 /\ ens.coords # None) =>
        \A rmsd \in 0..MaxRmsd :
            LET it == iterimpose(ens, views, heap, rmsd, NewCell)
            IN  it.r.err = "" =>
                    /\ it.steps >= 1
                    /\ \A i \in 1..Len(it.r.e.transformations) :
                           it.r.e.transformations[i] # None
                    /\ it.ref = Some(mean(it.r.e))

\* Conformation number k is in a slot of e
InSlots(e, k) == \E i \in 1..Len(e.ensemble) : e.ensemble[i] = Some(k)

\* C12: delCoordset leaves a Conformation that stays in a slot as it was,
\* and a Conformation whose slot it removes is no longer in any slot and
\* has lost its index and its ensemble but not its name.
C12_DeletedViewDetached ==
    [][last'.op = "delCoordset" =>
          \A k \in ViewIds :
              Live(views)[k] # None =>
                  IF InSlots(ens', k)
                  THEN views'[k] = Live(views)[k]
                  ELSE views'[k] = Some([name |-> Val(views[k]).name,
                                         ensemble |-> None, index |-> None])]_vars

\* a delete has detached one Conformation and left another in its slot
C12_Witness ==
    /\ last = Call("delCoordset", "")
    /\ \E k, j \in ViewIds :
           /\ views[k] # None /\ Val(views[k]).ensemble = None /\ ~InSlots(ens, k)
           /\ views[j] # None /\ Val(views[j]).ensemble # None /\ InSlots(ens, j)


\* ------------------------------------------------------ Ensemble, queries
\* The reference these read is None or an (n, 3) array, what setCoordinates
\* stores from an ndarray.
\* getCoordsets(None): indices = slice(None)
AllIndex == [kind |-> "all", list |-> <<>>]

\* a[indices] along the first axis for slice(None), an int or a list of
\* ints: an int drops the axis, a list keeps it in the order asked for;
\* IndexError for an index the axis does not have.  [err, arr]
Take(a, indices) ==
    IF indices.kind = "all" THEN [err |-> "", arr |-> a]
    ELSE IF \E k \in 1..Len(indices.list) : ~InRange(indices.list[k], Rows(a))
    THEN [err |-> "IndexError", arr |-> a]
    ELSE IF indices.kind = "int"
    THEN [err |-> "", arr |-> Arr(Tail(a.shape), a.dtype, a.data[Pos(indices.list[1], Rows(a))])]
    ELSE [err |-> "",
          arr |-> Arr(<<Len(indices.list)>> \o Tail(a.shape), a.dtype,
                      [k \in 1..Len(indices.list) |-> a.data[Pos(indices.list[k], Rows(a))]])]

\* which = w.flatten()==0, as the set of the positions that are True
ZeroWeighted(w) == {a \in 1..Len(w) : w[a] = 0}

\* whether a mask of length m that is True at `zero` indexes an axis of
\* length n (see MaskOk)
MaskFits(m, zero, n, lax) == m = n \/ (lax /\ \A p \in zero : p <= n)

\* coords[which] = self._coords[which] for one frame `row` and its weights
\* w (lines 253-254 and 477-479): the right hand side is evaluated first,
\* and None[which] is a TypeError.  [err, row]
Substitute(row, w, ref, lax) ==
    LET zero == ZeroWeighted(w)
    IN  IF ref = None THEN [err |-> "TypeError", row |-> row]
        ELSE IF ~MaskFits(Len(w), zero, Rows(Val(ref)), lax)
                  \/ ~MaskFits(Len(w), zero, Len(row), lax)
        THEN [err |-> "IndexError", row |-> row]
        ELSE [err |-> "",
              row |-> [a \in 1..Len(row) |-> IF a \in zero THEN Val(ref).data[a] ELSE row[a]]]

\* getCoordsets, the loop of lines 251-254 over the rows of
\* self._weights[indices] from row i on, for `coords` of rank 3: row i of
\* the weights goes with coords[i], which `coords` may not have
RECURSIVE substituteFrom(_, _, _, _, _)
substituteFrom(coords, w, ref, lax, i) ==
    IF i > Rows(w) THEN [err |-> "", arr |-> coords]
    ELSE IF ref = None THEN [err |-> "TypeError", arr |-> coords]
    ELSE IF i > Rows(coords) THEN [err |-> "IndexError", arr |-> coords]
    ELSE LET s == Substitute(coords.data[i], w.data[i], ref, lax)
         IN  IF s.err # "" THEN [err |-> s.err, arr |-> coords]
             ELSE substituteFrom([coords EXCEPT !.data[i] = s.row], w, ref, lax, i + 1)

\* The same loop for an int `indices`: self._weights[indices] is one frame
\* of weights, of shape (m, 1), so the loop runs over its atoms, w is the
\* one weight of atom i and `which` a mask of length 1.  It indexes the
\* reference along its atoms and coords[i] along x, y, z: IndexError
\* wherever the lengths differ (numpy >= 1.13).  An older numpy takes the
\* mask for the list of its True positions; then a zero weight selects one
\* number of coords[i] and assigns a (1, 3) array to it, a ValueError, and
\* a nonzero weight assigns an empty (0, 3) array to an empty selection,
\* which the build either accepts (`empty`) or refuses
RECURSIVE substituteAtoms(_, _, _, _, _, _)
substituteAtoms(coords, w, ref, lax, empty, i) ==
    IF i > Rows(w) THEN [err |-> "", arr |-> coords]
    ELSE IF ref = None THEN [err |-> "TypeError", arr |-> coords]
    ELSE IF ~MaskFits(1, ZeroWeighted(<<w.data[i]>>), Rows(Val(ref)), lax)
              \/ i > Rows(coords)
              \/ ~MaskFits(1, ZeroWeighted(<<w.data[i]>>), 3, lax)
    THEN [err |-> "IndexError", arr |-> coords]
    ELSE IF w.data[i] = 0 \/ ~empty THEN [err |-> "ValueError", arr |-> coords]
    ELSE substituteAtoms(coords, w, ref, lax, empty, i + 1)

\* Ensemble.getCoordsets(indices).  ref is the value of self._coords.
\* [err, value]: the exception and what is returned, None or an array
getCoordsets(e, ref, indices, lax, empty) ==
    IF e.confs = None THEN [err |-> "", value |-> None]
    ELSE LET c == Take(Val(e.confs), indices)
         IN  IF c.err # "" THEN [err |-> c.err, value |-> None]
             ELSE IF e.weights = None \/ ndim(Val(e.weights)) # 3
             THEN [err |-> "", value |-> Some(c.arr)]
             ELSE LET w == Take(Val(e.weights), indices)
                      s == IF indices.kind = "int"
                           THEN substituteAtoms(c.arr, w.arr, ref, lax, empty, 1)
                           ELSE substituteFrom(c.arr, w.arr, ref, lax, 1)
                  IN  IF w.err # "" THEN [err |-> w.err, value |-> None]
                      ELSE IF s.err # "" THEN [err |-> s.err, value |-> None]
                      ELSE [err |-> "", value |-> Some(s.arr)]

\* Conformation.getCoordinates() of the Conformation object view (lines
\* 471-480).  A detached object has no ensemble to ask (AttributeError);
\* self._index is what the object holds, whatever the ensemble has become.
\* weights[self._index].flatten() is the frame of weights of a rank 3
\* array and the one number of a rank 2 array.  [err, value]
ConformationGetCoordinates(e, view, ref, lax) ==
    IF view.ensemble = None THEN [err |-> "AttributeError", value |-> None]
    ELSE IF e.confs = None THEN [err |-> "TypeError", value |-> None]
    ELSE LET c == Take(Val(e.confs), IntIndex(Val(view.index)))
         IN  IF c.err # "" THEN [err |-> c.err, value |-> None]
             ELSE IF e.weights = None THEN [err |-> "", value |-> Some(c.arr)]
             ELSE LET w == Take(Val(e.weights), IntIndex(Val(view.index)))
                      flat == IF ndim(Val(e.weights)) = 3 THEN w.arr.data ELSE <<w.arr.data>>
                      s == Substitute(c.arr.data, flat, ref, lax)
                  IN  IF w.err # "" THEN [err |-> w.err, value |-> None]
                      ELSE IF s.err # "" THEN [err |-> s.err, value |-> None]
                      ELSE [err |-> "", value |-> Some([c.arr EXCEPT !.data = s.row])]

\* x - y of floats
Minus(x, y) == IF x = NaN \/ y = NaN THEN NaN ELSE x - y

\* getDeviations, line 416: self.getCoordsets() - self._coords, the
\* reference broadcast over the frames.  A reference that is None ends in a
\* TypeError (in the substitution of getCoordsets, or else in the
\* subtraction), atoms that do not broadcast in a ValueError.  [err, value]
subtractReference(e, ref, lax) ==
    LET g == getCoordsets(e, ref, AllIndex, lax, FALSE)
    IN  IF g.err # "" THEN [err |-> g.err, value |-> None]
        ELSE IF ref = None THEN [err |-> "TypeError", value |-> None]
        ELSE LET c == Val(g.value)
                 r == Val(ref)
                 n == Max(c.shape[2], Rows(r))
             IN  IF ~Broadcastable(c.shape[2], Rows(r))
                 THEN [err |-> "ValueError", value |-> None]
                 ELSE [err |-> "",
                       value |-> Some(Arr(<<Rows(c), n, 3>>, "f8",
                           [k \in 1..Rows(c) |->
                               [a \in 1..n |-> Minus(c.data[k][At(a, c.shape[2])],
                                                     r.data[At(a, Rows(r))])]]))]

\* getDeviations without lines 411-413: a reference that is not set is
\* subtracted all the same
getDeviationsUnguarded(e, ref, lax) ==
    IF e.confs = None THEN [err |-> "", value |-> None]
    ELSE subtractReference(e, ref, lax)

\* Ensemble.getDeviations(): None unless both arrays are set
getDeviations(e, ref, lax) ==
    IF e.confs = None THEN [err |-> "", value |-> None]
    ELSE IF ref = None THEN [err |-> "", value |-> None]
    ELSE subtractReference(e, ref, lax)

\* x * y of floats
Times(x, y) == IF x = NaN \/ y = NaN THEN NaN ELSE x * y

\* the sum of a sequence of floats
NaNSum(s) == IF \E i \in 1..Len(s) : s[i] = NaN THEN NaN ELSE SumSeq(s)

\* np.sqrt, rounded down to the integer grid of the coordinates
Sqrt(x) == IF x = NaN \/ x < 0 THEN NaN
           ELSE CHOOSE r \in 0..x : r * r <= x /\ (r + 1) * (r + 1) > x

\* Ensemble.getRMSDs(): per conformation k, the square root of
\* sum_a (3 d[k][a]^2 * wsum_axis_2[k][a]) / wsum_axis_1[k], where the
\* three coordinates of an atom deviate by the same d, wsum_axis_2 is the
\* weights array without its last axis and wsum_axis_1 its sum over the
\* atoms; both are 1 without weights.  weights.sum(2) of a rank 2 array is
\* a ValueError, np.power(None, 2) a TypeError, and the product and the
\* quotient broadcast.  [err, value]: value is None or the sequence of RMSDs
getRMSDs(e, ref, lax) ==
    IF e.confs = None THEN [err |-> "", value |-> None]
    ELSE IF e.weights # None /\ ndim(Val(e.weights)) # 3 THEN [err |-> "ValueError", value |-> None]
    ELSE LET g == getDeviations(e, ref, lax)
             d == Val(g.value)
             k1 == Rows(d)
             n1 == d.shape[2]
             k2 == IF e.weights = None THEN 1 ELSE Rows(Val(e.weights))
             n2 == IF e.weights = None THEN 1 ELSE Val(e.weights).shape[2]
             wt(k, a) == IF e.weights = None THEN 1 ELSE Val(e.weights).data[At(k, k2)][At(a, n2)]
             wsum_axis_1(k) == IF e.weights = None THEN 1
                               ELSE NaNSum(Val(e.weights).data[At(k, k2)])
             rows == Max(k1, k2)
             atoms == Max(n1, n2)
         IN  IF g.err # "" THEN [err |-> g.err, value |-> None]
             ELSE IF g.value = None THEN [err |-> "TypeError", value |-> None]
             ELSE IF ~Broadcastable(k1, k2) \/ ~Broadcastable(n1, n2)
             THEN [err |-> "ValueError", value |-> None]
             ELSE [err |-> "",
                   value |-> Some([k \in 1..rows |->
                       Sqrt(Divide(
                           NaNSum([a \in 1..atoms |->
                               Times(Times(3, Times(d.data[At(k, k1)][At(a, n1)],
                                                    d.data[At(k, k1)][At(a, n1)])),
                                     wt(k, a))]),
                           wsum_axis_1(k)))])]

\* Ensemble.getMSF(): line 395 reads self.conformations, an attribute that
\* no method of Ensemble sets and the class does not define, so the call
\* raises AttributeError before anything is computed.  [err, value]
getMSF(e) == [err |-> "AttributeError", value |-> None]


\* slice(start, stop).indices(length) for bounds that are not negative:
\* each is cut at the length
Clip(i, n) == IF i > n THEN n ELSE i

\* a[start:stop] along the first axis
SliceRows(a, start, stop) ==
    LET lo == Clip(start, Rows(a))
        hi == Max(lo, Clip(stop, Rows(a)))
    IN  Arr(<<hi - lo>> \o Tail(a.shape), a.dtype, [k \in 1..(hi - lo) |-> a.data[lo + k]])

\* Ensemble.__getitem__(slice(start, stop)), lines 75-80: a new Ensemble
\* named after the slice, given a copy of the reference (in cell c) and a
\* copy of the rows of self._confs.  self.getCoordinates() raises without
\* a reference, and None[index] is a TypeError.  [err, ens, heap]: the
\* exception, the Ensemble returned (or None) and the heap
getitem(e, h, start, stop, c) ==
    LET new == Ensemble(e.name \o " (" \o ToString(Clip(start, Len(e.ensemble))) \o ":"
                            \o ToString(Clip(stop, Len(e.ensemble))) \o ":1)")
        none == [i \in ViewIds |-> None]
        g == getCoordinates(e, h, c)
    IN  IF g.err # "" THEN [err |-> g.err, ens |-> None, heap |-> h]
        ELSE LET sc == setCoordinates(new, none, NdArray(Val(g.heap[c])), c)
             IN  IF sc.err # "" THEN [err |-> sc.err, ens |-> None, heap |-> g.heap]
                 ELSE IF e.confs = None THEN [err |-> "TypeError", ens |-> None, heap |-> g.heap]
                 ELSE LET ac == addCoordset(sc.e, sc.v,
                                            NdArray(Copy(SliceRows(Val(e.confs), start, stop))),
                                            None, 0)
                      IN  [err |-> ac.err,
                           ens |-> IF ac.err = "" THEN Some(ac.e) ELSE None,
                           heap |-> g.heap]

\* ------------------------------------------------- specification, queries
\* A reference, single frames with or without a weight per atom, and the
\* calls that read the ensemble.  A read leaves every object as it is and
\* is recorded as the last call.
QueryCoord == {0, 1}

SetQueried ==
    SetCoordinatesOf({NdArray(Arr(<<n, 3>>, "f8", Uniform(n, 0))) : n \in Atoms}, FALSE)

QueryInputs ==
    {<<NdArray(Arr(<<n, 3>>, "f8", Uniform(n, x))), w>> :
        n \in Atoms, x \in QueryCoord,
        w \in {None} \cup UNION {{Some(NdArray(Arr(<<m>>, "f8", ws))) : ws \in [1..m -> Weight]} :
                                   m \in Atoms}}

AddQueried == AddCoordsetOf(QueryInputs)

Reads(op, err) == last' = Call(op, err) /\ UNCHANGED <<ens, views, heap, arg, ret>>

DelQueried ==
    \E i \in 0..(MaxConfs - 1) :
        \E r \in {delCoordset(ens, Live(views), IntIndex(i), FALSE)} :
            /\ Becomes(r.e, r.v, heap, arg, ret)
            /\ last' = Call("delCoordset", r.err)

QueryIndices ==
    {AllIndex, ListIndex(<<>>)}
    \cup {IntIndex(i) : i \in 0..(MaxConfs - 1)}
    \cup {ListIndex(<<i>>) : i \in 0..(MaxConfs - 1)}
    \cup {ListIndex(<<i, j>>) : i, j \in 0..(MaxConfs - 1)}

GetCoordsets ==
    \E indices \in QueryIndices, lax, empty \in BOOLEAN :
        Reads("getCoordsets", getCoordsets(ens, Reference(ens, heap), indices, lax, empty).err)

ViewGetCoordinates ==
    \E k \in ViewIds, lax \in BOOLEAN :
        /\ views[k] # None
        /\ Reads("Conformation.getCoordinates",
                 ConformationGetCoordinates(ens, Val(views[k]), Reference(ens, heap), lax).err)

GetDeviations ==
    \E lax \in BOOLEAN : Reads("getDeviations", getDeviations(ens, Reference(ens, heap), lax).err)

GetRMSDs ==
    \E lax \in BOOLEAN : Reads("getRMSDs", getRMSDs(ens, Reference(ens, heap), lax).err)

GetMSF == Reads("getMSF", getMSF(ens).err)

\* ens[start:stop]: the caller looks at the new ensemble and lets it go
GetSlice ==
    \E start \in 0..MaxConfs, stop \in 0..MaxConfs :
        Reads("__getitem__", getitem(ens, heap, start, stop, NewCell).err)

NextQuery ==
    \/ SetQueried
    \/ AddQueried
    \/ DelQueried
    \/ GetConformation
    \/ GetCoordsets
    \/ ViewGetCoordinates
    \/ GetDeviations
    \/ GetRMSDs
    \/ GetMSF
    \/ GetSlice

SpecQuery == Init /\ [][NextQuery]_vars

\* C13: deviations() on a set whose reference or whose conformation data is
\* unset returns None, raises nothing and changes nothing
C13_DeviationsNoneWhenUnset ==
    [][(last'.op = "getDeviations" /\ (ens.coords = None \/ ens.confs = None)) =>
          /\ last'.err = ""
          /\ \A lax \in BOOLEAN : getDeviations(ens, Reference(ens, heap), lax).value = None
          /\ UNCHANGED <<ens, views, heap, arg, ret>>]_vars

\* deviations() has returned on a set with conformations and no reference
C13_Witness ==
    last = Call("getDeviations", "") /\ ens.coords = None /\ ens.confs # None


\* C14: meanSquareFluctuation() on a set with no conformation data returns
\* None and does not raise
C14_MsfNoneWithoutConformations ==
    [][(last'.op = "getMSF" /\ ens.confs = None) =>
          (last'.err = "" /\ getMSF(ens).value = None)]_vars

\* C15: rmsdPerConformation() gives 0 for every conformation that is
\* identical to the reference, whatever the weights: also for weights that
\* are all zero, where the result is 0 and not NaN
C15_RmsdZeroWhenIdentical ==
    (ens.coords # None /\ ens.confs # None) =>
        \A lax \in BOOLEAN :
            LET r == getRMSDs(ens, Reference(ens, heap), lax)
            IN  \A k \in 1..Rows(Val(ens.confs)) :
                    Val(ens.confs).data[k] = Val(Reference(ens, heap)).data =>
                        (r.err = "" /\ Val(r.value)[k] = 0)


\* ------------------------------------------- specification, fitted frames
\* Ensembles of one atom: up to MaxFrames frames at 0 or MaxOffset, with a
\* weight of 1 or without weights, Conformation objects, deletions by an
\* index or a list of two indices, and superimpositions.
FitInputs ==
    {<<NdArray(Arr(<<1, 3>>, "f8", Uniform(1, x))), w>> :
        x \in AlignCoord, w \in {None, Some(NdArray(Arr(<<1>>, "f8", Uniform(1, 1))))}}

SetFitted ==
    SetCoordinatesOf({NdArray(Arr(<<1, 3>>, "f8", Uniform(1, x))) : x \in AlignCoord}, FALSE)

AddFitted ==
    \E xw \in FitInputs :
        \E r \in {addCoordset(ens, Live(views), xw[1], xw[2], 0)} :
            /\ Len(r.e.ensemble) <= MaxFrames
            /\ r.e.confs # None => Rows(Val(r.e.confs)) <= MaxFrames
            /\ Becomes(r.e, r.v, heap, arg, ret)
            /\ last' = Call("addCoordset", r.err)

FitIndices ==
    {IntIndex(i) : i \in 0..(MaxFrames - 1)}
    \cup {ListIndex(<<i, j>>) : i \in {-2, 0}, j \in {0, MaxFrames - 1}}

DelFitted ==
    \E index \in FitIndices, lax \in IF Desynced(ens) THEN BOOLEAN ELSE {FALSE} :
        \E r \in {delCoordset(ens, Live(views), index, lax)} :
            /\ Becomes(r.e, r.v, heap, arg, ret)
            /\ last' = Call("delCoordset", r.err)

NextFit ==
    \/ SetFitted
    \/ AddFitted
    \/ DelFitted
    \/ GetConformation
    \/ Superimpose
    \/ Transform

SpecFit == Init /\ [][NextFit]_vars

\* self._weights[i] as _superimpose hands it to the fit (line 335)
FrameWeights(e, i) ==
    IF e.weights = None THEN None
    ELSE IF ndim(Val(e.weights)) = 3 THEN Some(Frame(Val(e.weights), i))
    ELSE Some([shape |-> <<1>>, data |-> <<Row(Val(e.weights), i)>>])

\* C16: a superimpose() that returns on n >= 1 conformations has replaced
\* the coordinates of each conformation 0..n-1 by the fit of what they were
\* to the reference as it was, has put the transformation of that fit in
\* each slot, and has left the reference, the weights, the number of atoms,
\* the number of conformations and the Conformation objects as they were
C16_SuperimposeFitsEach ==
    [][(last'.op = "superimpose" /\ last'.err = "" /\ Len(ens.ensemble) >= 1) =>
          /\ \A i \in 0..(Len(ens.ensemble) - 1) :
                 \E fit \in {measure_superimpose(Frame(Val(ens.confs), i), Reference(ens, heap),
                                                 FrameWeights(ens, i))} :
                     /\ Row(Val(ens'.confs), i) = fit.conf
                     /\ ens'.transformations[i + 1] = Some(fit.t)
          /\ Len(ens'.transformations) = Len(ens.ensemble)
          /\ Reference(ens', heap') = Reference(ens, heap)
          /\ ens'.weights = ens.weights
          /\ ens'.n_atoms = ens.n_atoms
          /\ ens'.ensemble = ens.ensemble
          /\ Val(ens'.confs).shape = Val(ens.confs).shape
          /\ \A k \in ViewIds : InSlots(ens, k) => views'[k] = views[k]]_vars

\* superimpose() has returned on two conformations that needed different
\* transformations, one of them with a Conformation object
C16_Witness ==
    /\ last = Call("superimpose", "")
    /\ Len(ens.ensemble) >= 2
    /\ ens.transformations[1] # None
    /\ ens.transformations[2] # None
    /\ ens.transformations[1] # ens.transformations[2]
    /\ \E k \in ViewIds : InSlots(ens, k)

\* a sequence without its positions P
Without(s, P) == Pick(s, [i \in 1..Len(s) |-> i \notin P], 1)

\* the storage a (None or an array) without the rows P; None when no row
\* is left
RowsWithout(a, P) ==
    IF a = None \/ (1..Rows(Val(a))) \subseteq P THEN None
    ELSE Some(Mask(Val(a), [i \in 1..Rows(Val(a)) |-> i \notin P]))

\* C18: the transformation slots follow the conformations.  An addCoordset
\* that returns appends one None slot per new conformation and keeps the
\* others; a delCoordset that returns removes the same positions from the
\* coordinates, the weights, the Conformation slots and the
\* transformations, so that every conformation that stays keeps its own
\* transformation; only a superimposition writes a slot otherwise
C18_TransformationsFollow ==
    [][/\ (last'.op = "addCoordset" /\ last'.err = "") =>
              ens'.transformations =
                  ens.transformations \o [i \in 1..(NumConfs(ens') - NumConfs(ens)) |-> None]
       /\ (last'.op = "delCoordset" /\ last'.err = "") =>
              \E P \in SUBSET (1..Len(ens.ensemble)) :
                  /\ ens'.transformations = Without(ens.transformations, P)
                  /\ ens'.ensemble = Without(ens.ensemble, P)
                  /\ ens'.confs = RowsWithout(ens.confs, P)
                  /\ ens'.weights = RowsWithout(ens.weights, P)
       /\ last'.op \notin {"addCoordset", "delCoordset", "superimpose", "iterimpose"} =>
              ens'.transformations = ens.transformations]_vars

\* the Conformation object that getConformation(i) returns: the one cached
\* in slot i, or a new one for index i
ConformationAt(e, v, i) ==
    IF e.ensemble[i + 1] # None THEN ViewAt(e, v, i + 1)
    ELSE Conformation(e.name, i, ToString(i))

\* the indices that getCoordsets(indices) asks for
Asked(e, indices) ==
    IF indices.kind = "all" THEN [k \in 1..Len(e.ensemble) |-> k - 1] ELSE indices.list

\* C19: wherever the Conformation objects at the indices asked for return
\* their coordinates, getCoordsets(indices) returns the same coordinates
\* (zero-weighted atoms at their reference positions): for an int the
\* coordinates of that Conformation, for a list and for None one frame for
\* each index in the order asked for
C19_CoordsetsAgreeWithViews ==
    ens.confs # None =>
        \A indices \in QueryIndices, lax \in BOOLEAN, empty \in BOOLEAN :
            LET asked == Asked(ens, indices)
                ref == Reference(ens, heap)
                own(k) == ConformationGetCoordinates(ens, ConformationAt(ens, views, asked[k]),
                                                     ref, lax)
                g == getCoordsets(ens, ref, indices, lax, empty)
            IN  (/\ \A k \in 1..Len(asked) : asked[k] < Len(ens.ensemble)
                 /\ \A k \in 1..Len(asked) : own(k).err = "") =>
                    /\ g.err = ""
                    /\ IF indices.kind = "int" THEN g.value = own(1).value
                       ELSE /\ Rows(Val(g.value)) = Len(asked)
                            /\ \A k \in 1..Len(asked) :
                                   Val(g.value).data[k] = Val(own(k).value).data

\* C20: on an ensemble with a reference, ens[start:stop] returns a new
\* ensemble with as many conformations as the range has, their coordinates
\* those of the range, and a reference equal to the original's in an array
\* of its own; the arrays of the original are as they were
C20_SliceIsIndependent ==
    ens.coords # None =>
        \A start \in 0..MaxConfs, stop \in 0..MaxConfs :
            start <= stop =>
                LET s == getitem(ens, heap, start, stop, NewCell)
                    lo == Clip(start, Len(ens.ensemble))
                    hi == Clip(stop, Len(ens.ensemble))
                IN  /\ s.err = ""
                    /\ Len(Val(s.ens).ensemble) = hi - lo
                    /\ NumConfs(Val(s.ens)) = hi - lo
                    /\ \A k \in 1..(hi - lo) :
                           Val(Val(s.ens).confs).data[k] = Val(ens.confs).data[lo + k]
                    /\ Val(s.ens).coords # ens.coords
                    /\ Reference(Val(s.ens), s.heap) = Reference(ens, heap)
                    /\ \A c \in Cells \ {NewCell} : s.heap[c] = heap[c]

====
